---- MODULE Spec2Model ----
(***************************************************************************)
(* The ToolTip widget of src/main.py as a state machine.                   *)
(*                                                                         *)
(* One ToolTip instance attached to one master widget.  The state is the   *)
(* instance's fields (_opts, _follow_mouse, _id, _tipwindow), the part of  *)
(* the toolkit the instance talks to (the master's outstanding `after`     *)
(* callbacks, the existing Toplevel windows, the pointer and the geometry  *)
(* the winfo_* queries report) and four observation variables (lastEvent,  *)
(* cancelled, hover, shows) that record which handler ran last, what it    *)
(* cancelled and what happened in the current hover.  Every handler runs   *)
(* to completion on the toolkit's single event thread, so every action is  *)
(* one whole handler call.                                                 *)
(***************************************************************************)
EXTENDS Integers, Sequences, FiniteSets

VARIABLES
    _opts,          \* self._opts: option name -> value
    _follow_mouse,  \* self._follow_mouse, set once by __init__
    _id,            \* self._id: handle of the last scheduled timer, or None
    _tipwindow,     \* self._tipwindow: handle of the popup Toplevel, or None
    timers,         \* toolkit: the outstanding `after` callbacks, [id, ms]
    afterId,        \* toolkit: the id the next `after` call returns
    windows,        \* toolkit: existing Toplevels, handle -> [x, y, content]
    winId,          \* toolkit: the handle the next Toplevel gets
    pointer,        \* toolkit: pointer position on screen, [x, y]
    geom,           \* toolkit: what the winfo_* queries of coords() report
    raised,         \* outcome of the last call: the exception, if any
    lastEvent,      \* observation: the handler that ran last
    cancelled,      \* observation: the timers that handler after_cancel'ed
    hover,          \* observation: an enter with no leave/press after it
    shows           \* observation: popups created in the current hover, or
                    \* in the last one when the pointer is outside

vars == <<_opts, _follow_mouse, _id, _tipwindow, timers, afterId, windows,
          winId, pointer, geom, raised, lastEvent, cancelled, hover, shows>>

----------------------------------------------------------------------------
(* Bounds of the model *)

\* after ids and Toplevel handles are drawn from counters; the model wraps
\* them so that the state space is finite.
MaxAfterIds == 3
MaxWindowIds == 2
\* screen size; the pointer is offered at half and at full extent
ScreenW == 60
ScreenH == 50
\* the alternative delay a configure call may set
OtherDelay == 500
\* saturation of the shows counter
MaxShows == 2

(* Program constants *)
DefaultDelay == 1500

None == 0

----------------------------------------------------------------------------
(* Options *)

DefaultOpts(text, delay) ==
    [anchor |-> "center", bd |-> 1, bg |-> "lightyellow", delay |-> delay,
     fg |-> "black", follow_mouse |-> 0, font |-> "None", justify |-> "left",
     padx |-> 4, pady |-> 2, relief |-> "solid", state |-> "normal",
     text |-> text, textvariable |-> "None", width |-> 0, wraplength |-> 150]

OptionKeys == DOMAIN DefaultOpts("Your text here", DefaultDelay)

\* what a call leaves behind: no exception, or the exception's type and the
\* parts of its message
NoException == [type |-> "none", message |-> <<>>]

\* `raise KeyError` with KeyError a local str: Python 3 refuses to raise a
\* str and raises this TypeError in its place; the str built from the key
\* is dropped
RaiseStr(text) ==
    [type |-> "TypeError",
     message |-> <<"exceptions must derive from BaseException">>]

\* configure that goes on after an unknown key and raises at the end
RECURSIVE configure_SkipsUnknown(_, _)
configure_SkipsUnknown(o, kvs) ==
    IF kvs = <<>> THEN [opts |-> o, raised |-> NoException]
    ELSE LET key == Head(kvs)[1]
             val == Head(kvs)[2]
         IN  IF key \in DOMAIN o
             THEN configure_SkipsUnknown([o EXCEPT ![key] = val], Tail(kvs))
             ELSE [opts |-> configure_SkipsUnknown(o, Tail(kvs)).opts,
                   raised |-> RaiseStr(<<"KeyError: Unknown option: ", key>>)]

\* configure(**opts): the keys in call order; the first unknown key ends the
\* loop with an exception, the keys before it stay applied.
RECURSIVE configure(_, _)
configure(o, kvs) ==
    IF kvs = <<>> THEN [opts |-> o, raised |-> NoException]
    ELSE LET key == Head(kvs)[1]
             val == Head(kvs)[2]
         IN  IF key \in DOMAIN o
             THEN configure([o EXCEPT ![key] = val], Tail(kvs))
             ELSE [opts |-> o,
                   raised |-> RaiseStr(<<"KeyError: Unknown option: ", key>>)]

----------------------------------------------------------------------------
(* The instance together with the toolkit objects its methods touch *)

Self ==
    [opts |-> _opts, follow_mouse |-> _follow_mouse, id |-> _id,
     tipwindow |-> _tipwindow, timers |-> timers, afterId |-> afterId,
     windows |-> windows, winId |-> winId]

Becomes(s) ==
    /\ _opts' = s.opts
    /\ _follow_mouse' = s.follow_mouse
    /\ _id' = s.id
    /\ _tipwindow' = s.tipwindow
    /\ timers' = s.timers
    /\ afterId' = s.afterId
    /\ windows' = s.windows
    /\ winId' = s.winId

\* master.after(ms, callback): a new outstanding callback under a fresh id
after(s, ms) ==
    [s EXCEPT !.timers = @ \cup {[id |-> s.afterId, ms |-> ms]},
              !.afterId = (s.afterId % MaxAfterIds) + 1]

\* master.after_cancel(id): the callback, if still outstanding, is dropped
after_cancel(s, id) ==
    [s EXCEPT !.timers = {t \in @ : t.id # id}]

\* _unschedule that clears the handle and forgets after_cancel
_unschedule_NoCancel(s) == [s EXCEPT !.id = None]

_unschedule(s) ==
    LET id == s.id
        s1 == [s EXCEPT !.id = None]
    IN  IF id # None THEN after_cancel(s1, id) ELSE s1

\* _schedule that does not _unschedule first
_schedule_NoUnschedule(s) ==
    IF s.opts["state"] = "disabled" THEN s
    ELSE [after(s, s.opts["delay"]) EXCEPT !.id = s.afterId]

_schedule(s) ==
    LET s1 == _unschedule(s)
    IN  IF s1.opts["state"] = "disabled" THEN s1
        ELSE [after(s1, s1.opts["delay"]) EXCEPT !.id = s1.afterId]

\* tw.destroy()
destroy(s, tw) ==
    [s EXCEPT !.windows = [w \in (DOMAIN @) \ {tw} |-> @[w]]]

_hide(s) ==
    LET tw == s.tipwindow
        s1 == [s EXCEPT !.tipwindow = None]
    IN  IF tw # None THEN destroy(s1, tw) ELSE s1

\* coords whose follow-mouse flip starts from the pointer, not from y
coords_FlipFromPointer(s, g, p) ==
    LET y0 == IF s.follow_mouse # 0 THEN p.y + 20
              ELSE g.rooty + g.height + 3
        y  == IF s.follow_mouse # 0
              THEN IF y0 + g.twy > g.h THEN p.y - g.twy - 30 ELSE y0
              ELSE IF y0 + g.twy > g.h THEN g.rooty - g.twy - 3 ELSE y0
        x0 == 2 * p.x - g.twx
        x2 == IF x0 < 0 THEN 0
              ELSE IF x0 + 2 * g.twx > 2 * g.w THEN 2 * (g.w - g.twx)
              ELSE x0
    IN  [x2 |-> x2, y |-> y]

\* coords that never places the anchored tip above the master
coords_AnchoredNoFlip(s, g, p) ==
    LET y0 == IF s.follow_mouse # 0 THEN p.y + 20
              ELSE g.rooty + g.height + 3
        y  == IF s.follow_mouse # 0
              THEN IF y0 + g.twy > g.h THEN y0 - g.twy - 30 ELSE y0
              ELSE y0
        x0 == 2 * p.x - g.twx
        x2 == IF x0 < 0 THEN 0
              ELSE IF x0 + 2 * g.twx > 2 * g.w THEN 2 * (g.w - g.twx)
              ELSE x0
    IN  [x2 |-> x2, y |-> y]

\* coords without the clamp at the right edge
coords_NoRightClamp(s, g, p) ==
    LET y0 == IF s.follow_mouse # 0 THEN p.y + 20
              ELSE g.rooty + g.height + 3
        y  == IF s.follow_mouse # 0
              THEN IF y0 + g.twy > g.h THEN y0 - g.twy - 30 ELSE y0
              ELSE IF y0 + g.twy > g.h THEN g.rooty - g.twy - 3 ELSE y0
        x0 == 2 * p.x - g.twx
        x2 == IF x0 < 0 THEN 0
              ELSE x0
    IN  [x2 |-> x2, y |-> y]

\* coords whose anchored flip forgets the height of the tip
coords_FlipOverMaster(s, g, p) ==
    LET y0 == IF s.follow_mouse # 0 THEN p.y + 20
              ELSE g.rooty + g.height + 3
        y  == IF s.follow_mouse # 0
              THEN IF y0 + g.twy > g.h THEN y0 - g.twy - 30 ELSE y0
              ELSE IF y0 + g.twy > g.h THEN g.rooty - 3 ELSE y0
        x0 == 2 * p.x - g.twx
        x2 == IF x0 < 0 THEN 0
              ELSE IF x0 + 2 * g.twx > 2 * g.w THEN 2 * (g.w - g.twx)
              ELSE x0
    IN  [x2 |-> x2, y |-> y]

\* coords whose follow-mouse flip forgets the height of the tip
coords_FlipKeepsTop(s, g, p) ==
    LET y0 == IF s.follow_mouse # 0 THEN p.y + 20
              ELSE g.rooty + g.height + 3
        y  == IF s.follow_mouse # 0
              THEN IF y0 + g.twy > g.h THEN y0 - 30 ELSE y0
              ELSE IF y0 + g.twy > g.h THEN g.rooty - g.twy - 3 ELSE y0
        x0 == 2 * p.x - g.twx
        x2 == IF x0 < 0 THEN 0
              ELSE IF x0 + 2 * g.twx > 2 * g.w THEN 2 * (g.w - g.twx)
              ELSE x0
    IN  [x2 |-> x2, y |-> y]

\* coords(): x is pointerx - twx / 2, a float; x2 is twice x, so that the
\* half stays exact.  g is what winfo_* report, p the pointer.
coords(s, g, p) ==
    LET y0 == IF s.follow_mouse # 0 THEN p.y + 20
              ELSE g.rooty + g.height + 3
        y  == IF s.follow_mouse # 0
              THEN IF y0 + g.twy > g.h THEN y0 - g.twy - 30 ELSE y0
              ELSE IF y0 + g.twy > g.h THEN g.rooty - g.twy - 3 ELSE y0
        x0 == 2 * p.x - g.twx
        x2 == IF x0 < 0 THEN 0
              ELSE IF x0 + 2 * g.twx > 2 * g.w THEN 2 * (g.w - g.twx)
              ELSE x0
    IN  [x2 |-> x2, y |-> y]

\* "+%d+%d" % (x, y): %d truncates the float x toward zero
Geometry(c) ==
    [x |-> IF c.x2 >= 0 THEN c.x2 \div 2 ELSE -((-c.x2) \div 2), y |-> c.y]

\* create_contents(): a Label built from the options but delay, follow_mouse
\* and state
create_contents(s) ==
    [k \in OptionKeys \ {"delay", "follow_mouse", "state"} |-> s.opts[k]]

\* wm_geometry of the tip window
wm_geometry(s, xy) ==
    [s EXCEPT !.windows[s.tipwindow].x = xy.x, !.windows[s.tipwindow].y = xy.y]

\* tk.Toplevel(master), filled and placed; it is withdrawn while this runs
\* and deiconified at the end, so an existing window is a visible one.
Toplevel(s, g, p) ==
    LET tw == s.winId
        s1 == [s EXCEPT !.tipwindow = tw,
                        !.winId = (s.winId % MaxWindowIds) + 1,
                        !.windows = [w \in (DOMAIN @) \cup {tw} |->
                                       IF w = tw
                                       THEN [x |-> 0, y |-> 0,
                                             content |-> create_contents(s)]
                                       ELSE @[w]]]
    IN  wm_geometry(s1, Geometry(coords(s1, g, p)))

\* _show without the check of the state option
_show_IgnoresState(s, g, p) ==
    IF s.tipwindow = None THEN Toplevel(s, g, p) ELSE s

\* _show without the check for an existing tip window
_show_NoWindowCheck(s, g, p) ==
    IF s.opts["state"] = "disabled" THEN _unschedule(s)
    ELSE Toplevel(s, g, p)

_show(s, g, p) ==
    IF s.opts["state"] = "disabled" THEN _unschedule(s)
    ELSE IF s.tipwindow = None THEN Toplevel(s, g, p)
    ELSE s

\* enter that cancels the old timer and schedules none
enter_NoSchedule(s) == _unschedule(s)

enter(s) == _schedule(s)

\* leave that forgets _hide
leave_NoHide(s) == _unschedule(s)

leave(s) == _hide(_unschedule(s))

\* motion that does not look at the follow-mouse mode
motion_IgnoresFollowMouse(s, g, p) ==
    IF s.tipwindow # None
    THEN wm_geometry(s, Geometry(coords(s, g, p)))
    ELSE s

motion(s, g, p) ==
    IF s.tipwindow # None /\ s.follow_mouse # 0
    THEN wm_geometry(s, Geometry(coords(s, g, p)))
    ELSE s

----------------------------------------------------------------------------
(* Inputs *)

Points == {[x |-> x, y |-> y] : x \in {ScreenW \div 2, ScreenW},
                                y \in {ScreenH \div 2, ScreenH}}

\* a roomy screen, and one where the tip does not fit below
Geoms ==
    {[twx |-> 20, twy |-> 10, w |-> ScreenW, h |-> ScreenH,
      rooty |-> ry, height |-> 10] : ry \in {10, ScreenH - 20}}

\* single options a configure call may carry
ConfigurePairs ==
    {<<"state", "disabled">>, <<"state", "normal">>, <<"follow_mouse", 0>>,
     <<"follow_mouse", 1>>, <<"delay", OtherDelay>>, <<"text", "other">>,
     <<"foo", 1>>}

\* the configure calls offered to the model: no option, every single option,
\* and calls where an unknown key stands first, in the middle and last
ConfigureCalls ==
    {<<>>} \cup {<<kv>> : kv \in ConfigurePairs}
    \cup {<<<<"text", "other">>, <<"foo", 1>>, <<"delay", OtherDelay>>>>,
          <<<<"foo", 1>>, <<"state", "disabled">>>>,
          <<<<"state", "disabled">>, <<"follow_mouse", 1>>>>,
          <<<<"delay", OtherDelay>>, <<"bar", 1>>>>}

----------------------------------------------------------------------------
(* State machine *)

\* ToolTip(master, follow_mouse=fm, state=st): the state __init__ leaves,
\* the pointer at one of points and the geometry one of geoms
InitOver(points, geoms) ==
    /\ \E fm \in {0, 1}, st \in {"normal", "disabled"} :
          /\ _opts = configure(DefaultOpts("Your text here", DefaultDelay),
                               <<<<"follow_mouse", fm>>, <<"state", st>>>>).opts
          /\ _follow_mouse = (IF fm # 0 THEN 1 ELSE 0)
    /\ _tipwindow = None
    /\ _id = None
    /\ timers = {}
    /\ afterId = 1
    /\ windows = <<>>
    /\ winId = 1
    /\ pointer \in points
    /\ geom \in geoms
    /\ raised = NoException
    /\ lastEvent = "init"
    /\ cancelled = {}
    /\ hover = FALSE
    /\ shows = 0

Init == InitOver(Points, Geoms)

\* what a handler call that leads to s did, for the observation variables
Created(s) == IF s.tipwindow # None /\ _tipwindow = None THEN 1 ELSE 0

Cancelled(s, fired) == (timers \ s.timers) \ fired

\* <Enter> on the master
Enter ==
    /\ LET s == enter(Self)
       IN  /\ Becomes(s)
           /\ cancelled' = Cancelled(s, {})
    /\ lastEvent' = "enter"
    /\ hover' = TRUE
    /\ shows' = IF hover THEN shows ELSE 0
    /\ raised' = NoException
    /\ UNCHANGED <<pointer, geom>>

\* <Leave> on the master
Leave ==
    /\ LET s == leave(Self)
       IN  /\ Becomes(s)
           /\ cancelled' = Cancelled(s, {})
    /\ lastEvent' = "leave"
    /\ hover' = FALSE
    /\ raised' = NoException
    /\ UNCHANGED <<pointer, geom, shows>>

\* <ButtonPress> on the master, bound to leave as well
ButtonPress ==
    /\ LET s == leave(Self)
       IN  /\ Becomes(s)
           /\ cancelled' = Cancelled(s, {})
    /\ lastEvent' = "press"
    /\ hover' = FALSE
    /\ raised' = NoException
    /\ UNCHANGED <<pointer, geom, shows>>

\* the pointer moves to p; <Motion> (or a direct call of motion())
Motion(p) ==
    /\ pointer' = p
    /\ LET s == motion(Self, geom, p)
       IN  /\ Becomes(s)
           /\ cancelled' = Cancelled(s, {})
    /\ lastEvent' = "motion"
    /\ raised' = NoException
    /\ UNCHANGED <<geom, hover, shows>>

\* the toolkit runs an outstanding callback: it leaves the queue, _show runs
TimerFire(t) ==
    /\ t \in timers
    /\ LET s == _show([Self EXCEPT !.timers = @ \ {t}], geom, pointer)
       IN  /\ Becomes(s)
           /\ cancelled' = Cancelled(s, {t})
           /\ shows' = IF Created(s) = 1 /\ shows < MaxShows
                       THEN shows + 1 ELSE shows
    /\ lastEvent' = "fire"
    /\ raised' = NoException
    /\ UNCHANGED <<pointer, geom, hover>>

\* configure that lets follow_mouse take effect on the running instance
Configure_SetsMode(kvs) ==
    /\ LET r == configure(_opts, kvs)
       IN  /\ _opts' = r.opts
           /\ raised' = r.raised
           /\ _follow_mouse' = (IF r.opts["follow_mouse"] # 0 THEN 1 ELSE 0)
    /\ lastEvent' = "configure"
    /\ cancelled' = {}
    /\ UNCHANGED <<_id, _tipwindow, timers, afterId, windows,
                   winId, pointer, geom, hover, shows>>

\* configure that restyles the popup that is up
Configure_RestylesPopup(kvs) ==
    /\ LET r == configure(_opts, kvs)
       IN  /\ _opts' = r.opts
           /\ raised' = r.raised
           /\ windows' = [w \in DOMAIN windows |->
                            [windows[w] EXCEPT !.content =
                                [k \in DOMAIN @ |-> r.opts[k]]]]
    /\ lastEvent' = "configure"
    /\ cancelled' = {}
    /\ UNCHANGED <<_follow_mouse, _id, _tipwindow, timers, afterId,
                   winId, pointer, geom, hover, shows>>

\* configure(**kvs) called by the application
Configure(kvs) ==
    /\ LET r == configure(_opts, kvs)
       IN  /\ _opts' = r.opts
           /\ raised' = r.raised
    /\ lastEvent' = "configure"
    /\ cancelled' = {}
    /\ UNCHANGED <<_follow_mouse, _id, _tipwindow, timers, afterId, windows,
                   winId, pointer, geom, hover, shows>>

\* one event, the pointer moving within points and the application calling
\* configure with one of calls
NextOver(points, calls) ==
    \/ Enter
    \/ Leave
    \/ ButtonPress
    \/ \E p \in points : Motion(p)
    \/ \E t \in timers : TimerFire(t)
    \/ \E kvs \in calls : Configure(kvs)

Next == NextOver(Points, ConfigureCalls)

Spec == Init /\ [][Next]_vars

\* The same machine over fewer inputs, with the toolkit's fairness: its
\* event loop runs every callback that stays outstanding.  Whether the popup
\* comes up does not depend on texts, delays or where the pointer is.
LivePoints == {[x |-> ScreenW \div 2, y |-> ScreenH \div 2]}

LiveGeoms == {g \in Geoms : g.rooty = 10}

LiveConfigureCalls ==
    {<<<<"state", "disabled">>>>, <<<<"state", "normal">>>>, <<<<"foo", 1>>>>}

LiveTimers == {[id |-> i, ms |-> DefaultDelay] : i \in 1..MaxAfterIds}

LiveInit == InitOver(LivePoints, LiveGeoms)

LiveNext == NextOver(LivePoints, LiveConfigureCalls)

LiveSpec ==
    /\ LiveInit
    /\ [][LiveNext]_vars
    /\ \A t \in LiveTimers : WF_vars(TimerFire(t))

\* The machine with the pointer and the geometry held still and every
\* configure call offered: what configure does depends on neither.
ConfInit == InitOver(LivePoints, LiveGeoms)

ConfNext == NextOver(LivePoints, ConfigureCalls)

ConfSpec == ConfInit /\ [][ConfNext]_vars

\* The placement over many geometries: one hover in state 'normal', the
\* pointer entering, the timer firing and motion events at the pointer's
\* place, for every combination of the sizes and positions below (among
\* them sizes of zero, a tip wider or higher than the screen and a pointer
\* off the screen) and the two worked cases of a 1000 x 800 screen.
CoordGeoms ==
    {[twx |-> twx, twy |-> twy, w |-> 40, h |-> h, rooty |-> ry,
      height |-> mh] :
        twx \in {0, 15, 40, 70}, twy \in {0, 10, 45, 100}, h \in {50, 100},
        ry \in {0, 40, 90}, mh \in {0, 30}}
    \cup {[twx |-> 100, twy |-> 30, w |-> 1000, h |-> 800, rooty |-> 100,
           height |-> 20]}

CoordPoints ==
    {[x |-> x, y |-> y] : x \in {-5, 0, 20, 35, 40, 60},
                          y \in {0, 25, 50, 100, 120}}
    \cup {[x |-> 950, y |-> 780]}

CoordsInit == InitOver(CoordPoints, CoordGeoms) /\ _opts["state"] = "normal"

CoordsNext ==
    \/ ~hover /\ Enter
    \/ \E t \in timers : TimerFire(t)
    \/ _tipwindow # None /\ Motion(pointer)

CoordsSpec == CoordsInit /\ [][CoordsNext]_vars

----------------------------------------------------------------------------
(* Properties *)

\* where the tip window stands, and where coords() puts it now
TipAt == [x |-> windows[_tipwindow].x, y |-> windows[_tipwindow].y]
Placement == Geometry(coords(Self, geom, pointer))

\* C1: after a leave or a button press, whatever the state before, the
\* instance holds no timer handle and no popup handle, and the toolkit holds
\* no outstanding timer and no popup window; press does what leave does.
C1_LeaveClearsTimerAndPopup ==
    lastEvent \in {"leave", "press"} =>
        /\ _id = None
        /\ timers = {}
        /\ _tipwindow = None
        /\ DOMAIN windows = {}

\* a press that came while a timer was pending and the popup of this hover
\* was up
C1_Witness ==
    /\ lastEvent = "press"
    /\ cancelled # {}
    /\ shows = 1
    /\ _id = None /\ _tipwindow = None

\* C2: as long as every enter has been followed by a leave or press before
\* its timer fired, no popup exists and none can come: outside a hover no
\* timer is outstanding, and a popup is only ever created by the firing,
\* within a hover, of the timer the instance holds the handle of; a timer
\* that leave or press cancelled is not the one that fires.
C2_CancelledTimerNeverShows ==
    [][/\ ~hover' => timers' = {} /\ DOMAIN windows' = {}
       /\ ~(DOMAIN windows' \subseteq DOMAIN windows) =>
             /\ lastEvent' = "fire"
             /\ hover
             /\ \E t \in timers : t.id = _id /\ t \notin timers'
       /\ lastEvent' = "fire" => (timers \ timers') \cap cancelled = {}]_vars

\* a leave that cancelled the pending timer of a hover that showed no popup
C2_Witness ==
    /\ lastEvent = "leave"
    /\ cancelled # {}
    /\ shows = 0
    /\ timers = {} /\ DOMAIN windows = {}

\* C3: while the state option is 'disabled' no popup is created; an enter
\* schedules no timer, and a timer scheduled earlier that fires now creates
\* no popup and leaves the instance without a timer handle.
C3_DisabledNeverShows ==
    [][_opts["state"] = "disabled" =>
          /\ DOMAIN windows' \subseteq DOMAIN windows
          /\ lastEvent' = "enter" => timers' = {} /\ _id' = None
          /\ lastEvent' = "fire" =>
                /\ _id' = None /\ timers' = {}
                /\ _tipwindow' = _tipwindow /\ windows' = windows]_vars

\* a timer scheduled while 'normal' has fired while 'disabled'
C3_Witness ==
    /\ lastEvent = "fire"
    /\ _opts["state"] = "disabled"
    /\ _id = None /\ _tipwindow = None /\ DOMAIN windows = {}

\* C4: within one hover a popup is created at most once, and at no time do
\* two popup windows exist; the only window there is is the tip window.
C4_OnePopupPerHover ==
    /\ shows <= 1
    /\ Cardinality(DOMAIN windows) <= 1
    /\ DOMAIN windows = (IF _tipwindow = None THEN {} ELSE {_tipwindow})

\* a timer fired, with state 'normal', in a hover that had its popup already:
\* the popup is not where this firing would have put a new one
C4_Witness ==
    /\ lastEvent = "fire"
    /\ hover /\ shows = 1
    /\ _opts["state"] = "normal"
    /\ _tipwindow # None
    /\ TipAt # Placement

\* the hover that began with an enter in state 'normal' has been interrupted
Interrupted == ~hover \/ _opts["state"] = "disabled"

\* once up, the popup stays up until a leave or press
PopupStays ==
    [][(_tipwindow # None /\ lastEvent' \notin {"leave", "press"}) =>
          /\ _tipwindow' = _tipwindow
          /\ _tipwindow' \in DOMAIN windows']_vars

\* C5 as claimed: after an enter in state 'normal', unless a leave, a press
\* or a configure to 'disabled' follows, the popup comes up and stays up,
\* the toolkit firing every timer that is not cancelled.
C5_EnterEventuallyShows ==
    /\ (lastEvent = "enter" /\ _opts["state"] = "normal")
          ~> (_tipwindow # None \/ Interrupted)
    /\ PopupStays

\* C5, amended: the same, provided the enters come to an end: every further
\* enter cancels the pending timer and starts the delay anew, so enters
\* that never stop keep the popup away for ever.
C5_LastEnterEventuallyShows ==
    /\ <>[][lastEvent' # "enter"]_vars =>
          ((lastEvent = "enter" /\ _opts["state"] = "normal")
              ~> (_tipwindow # None \/ Interrupted))
    /\ PopupStays

\* the timer of an enter has fired and put the popup up
C5_Witness ==
    /\ lastEvent = "fire"
    /\ hover /\ shows = 1
    /\ _opts["state"] = "normal"
    /\ _tipwindow # None /\ _tipwindow \in DOMAIN windows
    /\ TipAt = Placement
    /\ timers = {}

\* C6: at most one timer is outstanding, and it is the one whose handle the
\* instance holds.
C6_AtMostOneTimer ==
    /\ Cardinality(timers) <= 1
    /\ \A t \in timers : t.id = _id

\* an enter that cancelled the pending timer and scheduled its own
C6_Witness ==
    /\ lastEvent = "enter"
    /\ Cardinality(cancelled) = 1
    /\ Cardinality(timers) = 1

\* C7 as claimed: an outstanding timer and a popup never coexist.
C7_TimerAndPopupNeverCoexist == ~(timers # {} /\ _tipwindow # None)

\* C7, amended: there is at most one timer and at most one popup, but the
\* two can coexist: an enter delivered while the popup is shown keeps the
\* popup and schedules a timer.  That is the only way into the state, and
\* the timer's firing leaves the popup as it is and no timer behind.
C7_StatesWithShownPending ==
    [][/\ Cardinality(timers') <= 1
       /\ DOMAIN windows' = (IF _tipwindow' = None THEN {} ELSE {_tipwindow'})
       /\ (timers' # {} /\ _tipwindow' # None
            /\ ~(timers # {} /\ _tipwindow # None)) =>
             /\ lastEvent' = "enter"
             /\ _tipwindow # None
             /\ _tipwindow' = _tipwindow /\ windows' = windows
       /\ (lastEvent' = "enter" /\ _tipwindow # None
            /\ _opts["state"] = "normal") =>
             /\ timers' # {}
             /\ _tipwindow' = _tipwindow /\ windows' = windows
       /\ (timers # {} /\ _tipwindow # None /\ lastEvent' = "fire") =>
             /\ timers' = {}
             /\ _tipwindow' = _tipwindow /\ windows' = windows]_vars

\* the popup is up and a timer is pending, after an enter
C7_Witness ==
    /\ lastEvent = "enter"
    /\ timers # {}
    /\ _tipwindow # None /\ _tipwindow \in DOMAIN windows

C9_MotionOnlyRepositions ==
    [][lastEvent' = "motion" =>
          /\ _id' = _id /\ timers' = timers /\ afterId' = afterId
          /\ _tipwindow' = _tipwindow /\ winId' = winId
          /\ DOMAIN windows' = DOMAIN windows
          /\ \A w \in DOMAIN windows : windows'[w].content = windows[w].content
          /\ _opts' = _opts /\ _follow_mouse' = _follow_mouse
          /\ cancelled' = {}
          /\ (_tipwindow = None \/ _follow_mouse = 0) => windows' = windows
          /\ (_tipwindow # None /\ _follow_mouse # 0) => TipAt' = Placement']_vars

\* a motion that moved the popup while a timer was pending
C9_Witness ==
    /\ lastEvent = "motion"
    /\ _tipwindow # None /\ _follow_mouse = 1
    /\ timers # {}
    /\ TipAt = Placement

\* a motion in anchored mode, the popup up: it stays where it was
C9_WitnessAnchored ==
    /\ lastEvent = "motion"
    /\ _tipwindow # None /\ _follow_mouse = 0
    /\ TipAt # Placement

\* C10: the follow-mouse mode never changes after construction, whatever
\* configure sets the follow_mouse option to, and it is the mode, not the
\* option, that motion and the placement go by.
C10_FollowMouseFixed ==
    [][/\ _follow_mouse' = _follow_mouse
       /\ (lastEvent' = "motion" /\ _follow_mouse = 0) => windows' = windows
       /\ (lastEvent' = "motion" /\ _follow_mouse # 0 /\ _tipwindow # None) =>
             TipAt' = Placement'
       /\ (lastEvent' = "fire" /\ _tipwindow = None /\ _tipwindow' # None) =>
             TipAt' = Placement']_vars

\* the option was configured to the opposite of the mode, and a motion
\* still moved the popup
C10_Witness ==
    /\ lastEvent = "motion"
    /\ _follow_mouse = 1 /\ _opts["follow_mouse"] = 0
    /\ _tipwindow # None
    /\ TipAt = Placement
    /\ TipAt.y # geom.rooty + geom.height + 3
    /\ TipAt.y # geom.rooty - geom.twy - 3

----------------------------------------------------------------------------
(* Properties of configure *)

\* the place of the first key of a call that is no option, 0 if there is none
UnknownAt(kvs) ==
    LET bad == {i \in 1..Len(kvs) : kvs[i][1] \notin OptionKeys}
    IN  IF bad = {} THEN 0 ELSE CHOOSE i \in bad : \A j \in bad : i <= j

\* the options o with the first n keys of a call written into them
Applied(o, kvs, n) ==
    [k \in DOMAIN o |->
        IF \E i \in 1..n : kvs[i][1] = k
        THEN kvs[CHOOSE i \in 1..n : kvs[i][1] = k][2]
        ELSE o[k]]

Elements(seq) == {seq[i] : i \in 1..Len(seq)}

\* the calls that carry a key that is no option, and those that carry none
FailingCalls == {kvs \in ConfigureCalls : UnknownAt(kvs) # 0}
PassingCalls == ConfigureCalls \ FailingCalls

\* C11: configure with a key that is no option fails with an unknown-option
\* error that names the key.
C11_UnknownKeyErrorNamesKey ==
    [][lastEvent' = "configure" => \A kvs \in FailingCalls :
          Configure(kvs) =>
             /\ raised'.type \in {"KeyError", "UnknownOptionError"}
             /\ kvs[UnknownAt(kvs)][1] \in Elements(raised'.message)]_vars

\* C12: when configure fails on an unknown key, the options before it in the
\* call are applied and those after it are not; no configure call ever adds
\* a key to the options; the timer handle, the timers, the popup handle and
\* the windows stay as they were.
C12_FailingConfigureAppliesPrefix ==
    [][/\ DOMAIN _opts' = OptionKeys
       /\ lastEvent' = "configure" => \A kvs \in FailingCalls :
             Configure(kvs) =>
                /\ raised' # NoException
                /\ _opts' = Applied(_opts, kvs, UnknownAt(kvs) - 1)
                /\ _id' = _id /\ timers' = timers
                /\ _tipwindow' = _tipwindow /\ windows' = windows]_vars

\* a configure has failed, a timer pending and the popup up, with the text
\* set and the delay never set
C12_Witness ==
    /\ lastEvent = "configure"
    /\ raised # NoException
    /\ _opts["text"] = "other" /\ _opts["delay"] = DefaultDelay
    /\ timers # {} /\ _tipwindow # None

\* C13: a configure call changes the options and nothing else: the popup
\* handle, the popup's content and place, the timer handle and the
\* outstanding timer with its delay stay; a call without unknown key writes
\* all its keys.  The new delay is that of the timer of the next enter, the
\* new display options are the content of the next popup created.
C13_ConfigureOnlyWritesOptions ==
    [][/\ lastEvent' = "configure" =>
             /\ _id' = _id /\ timers' = timers /\ afterId' = afterId
             /\ _tipwindow' = _tipwindow /\ windows' = windows
             /\ winId' = winId /\ _follow_mouse' = _follow_mouse
       /\ lastEvent' = "configure" => \A kvs \in PassingCalls :
             Configure(kvs) =>
                /\ raised' = NoException
                /\ _opts' = Applied(_opts, kvs, Len(kvs))
       /\ lastEvent' = "enter" => \A t \in timers' : t.ms = _opts["delay"]
       /\ (lastEvent' = "fire" /\ _tipwindow = None /\ _tipwindow' # None) =>
             /\ DOMAIN windows'[_tipwindow'].content
                   = OptionKeys \ {"delay", "follow_mouse", "state"}
             /\ \A k \in DOMAIN windows'[_tipwindow'].content :
                   windows'[_tipwindow'].content[k] = _opts[k]]_vars

\* a configure went through while the popup showed the old text and the
\* pending timer had the old delay
C13_Witness ==
    /\ lastEvent = "configure"
    /\ raised = NoException
    /\ _tipwindow # None
    /\ windows[_tipwindow].content["text"] # _opts["text"]
    /\ \E t \in timers : t.ms # _opts["delay"]

----------------------------------------------------------------------------
(* Properties of the placement *)

\* what coords() returns in this state: x2 is twice its x
Where == coords(Self, geom, pointer)

\* the tip window has just been placed by coords(): it stands at what
\* coords() returned, Where, cut to whole pixels
Placed ==
    /\ _tipwindow # None
    /\ lastEvent = "fire" \/ (lastEvent = "motion" /\ _follow_mouse # 0)
    /\ TipAt = Placement

\* the worked case of the 1000 x 800 screen
WorkedCase ==
    /\ geom.w = 1000 /\ geom.h = 800 /\ geom.twx = 100 /\ geom.twy = 30
    /\ geom.rooty = 100 /\ geom.height = 20

\* C14 as claimed: in follow-mouse mode y is pointer y + 20 if the tip fits
\* above the bottom of the screen, else pointer y - tip height - 30; the
\* worked case with the pointer at (950, 780) gives (900, 720).
C14_FollowYFlipsFromPointer ==
    (Placed /\ _follow_mouse # 0) =>
        /\ Where.y = IF pointer.y + 20 + geom.twy <= geom.h
                     THEN pointer.y + 20
                     ELSE pointer.y - geom.twy - 30
        /\ (WorkedCase /\ pointer = [x |-> 950, y |-> 780]) =>
              Where.x2 = 2 * 900 /\ Where.y = 720

\* C14, amended: the flip subtracts from y, which is pointer y + 20 already:
\* else y is pointer y - tip height - 10, and the worked case gives
\* (900, 740).
C14_FollowYFlipsFromY ==
    (Placed /\ _follow_mouse # 0) =>
        /\ Where.y = IF pointer.y + 20 + geom.twy <= geom.h
                     THEN pointer.y + 20
                     ELSE pointer.y - geom.twy - 10
        /\ (WorkedCase /\ pointer = [x |-> 950, y |-> 780]) =>
              Where.x2 = 2 * 900 /\ Where.y = 740

\* the worked case, the tip placed at (900, 740)
C14_Witness ==
    /\ _follow_mouse = 1
    /\ WorkedCase /\ pointer = [x |-> 950, y |-> 780]
    /\ Placed
    /\ TipAt = [x |-> 900, y |-> 740]

\* C15: in anchored mode y is master y + master height + 3 if the tip fits
\* above the bottom of the screen from there, else master y - tip height - 3,
\* wherever the pointer is; the worked case gives y = 123.
C15_AnchoredY ==
    (Placed /\ _follow_mouse = 0) =>
        /\ Where.y = IF geom.rooty + geom.height + 3 + geom.twy <= geom.h
                     THEN geom.rooty + geom.height + 3
                     ELSE geom.rooty - geom.twy - 3
        /\ \A p \in CoordPoints : coords(Self, geom, p).y = Where.y
        /\ WorkedCase => Where.y = 123

\* the worked case, the tip placed at y = 123
C15_Witness ==
    /\ _follow_mouse = 0
    /\ WorkedCase
    /\ Placed
    /\ TipAt.y = 123

\* C16: a tip at least as wide as the screen is placed at x = 0, wherever
\* the pointer is.
C16_WideTipPinsLeft ==
    (Placed /\ geom.twx >= geom.w) => Where.x2 = 0 /\ TipAt.x = 0

\* C17: a tip no wider than the screen is placed with 0 <= x <= screen
\* width - tip width, in both modes, and at pointer x - tip width / 2 if that
\* is within the range.
C17_XWithinScreen ==
    (Placed /\ geom.twx <= geom.w) =>
        /\ 0 <= Where.x2 /\ Where.x2 <= 2 * (geom.w - geom.twx)
        /\ (0 <= 2 * pointer.x - geom.twx
             /\ 2 * pointer.x - geom.twx <= 2 * (geom.w - geom.twx)) =>
              Where.x2 = 2 * pointer.x - geom.twx

\* a tip of odd width placed centred on the pointer, half a pixel cut off
C17_Witness ==
    /\ geom.twx = 15 /\ geom.w = 40 /\ pointer.x = 20
    /\ Placed
    /\ Where.x2 = 25 /\ TipAt.x = 12

\* C18: in anchored mode the tip never overlaps the master's box: placed
\* below, its top is at or below the master's bottom edge; flipped, its
\* bottom is at or above the master's top edge.
C18_AnchoredTipOffMaster ==
    (Placed /\ _follow_mouse = 0) =>
        IF geom.rooty + geom.height + 3 + geom.twy <= geom.h
        THEN Where.y >= geom.rooty + geom.height
        ELSE Where.y + geom.twy <= geom.rooty

\* a tip of some height flipped above the master
C18_Witness ==
    /\ _follow_mouse = 0
    /\ geom.twy > 0 /\ geom.height > 0
    /\ geom.rooty + geom.height + 3 + geom.twy > geom.h
    /\ Placed
    /\ TipAt.y + geom.twy <= geom.rooty

\* C19: in follow-mouse mode, the pointer on the screen and the tip no
\* higher than the screen, the tip is within the screen vertically, flipped
\* or not.
C19_FollowTipOnScreen ==
    (Placed /\ _follow_mouse # 0 /\ 0 <= pointer.y /\ pointer.y <= geom.h
       /\ geom.twy <= geom.h) =>
        0 <= Where.y /\ Where.y + geom.twy <= geom.h

\* C20: in follow-mouse mode the pointer is never within the tip: not
\* flipped, the tip's top is below the pointer; flipped, its bottom is above.
C20_PointerOutsideTip ==
    (Placed /\ _follow_mouse # 0) =>
        IF pointer.y + 20 + geom.twy <= geom.h
        THEN Where.y > pointer.y
        ELSE Where.y + geom.twy < pointer.y

\* a tip of some height flipped above the pointer after a motion
C20_Witness ==
    /\ _follow_mouse = 1
    /\ lastEvent = "motion"
    /\ geom.twy >= 10
    /\ pointer.y + 20 + geom.twy > geom.h
    /\ Placed
    /\ TipAt.y + geom.twy < pointer.y

====
